---------------------------- MODULE Spec2Model ----------------------------
(***************************************************************************)
(* Model of src/main.py: the field normalizers (clean_value,               *)
(* clean_financial_value), the identity matchers (are_same_document,       *)
(* are_same_vehicle), the merge reducers (combine_results,                 *)
(* combine_license_results) and the two request handlers (analyze_files,   *)
(* analyze_license).                                                       *)
(*                                                                         *)
(* Text values are sequences of one-character strings, so that len(),      *)
(* strip(), split('\n') and the regular expression of clean_value are      *)
(* computed character by character.  The empty sequence is Python's "".    *)
(***************************************************************************)
EXTENDS Integers, Sequences, FiniteSets, TLC

VARIABLES
    op,              \* the function or handler this run executes
    pc,              \* position of the run inside it
    value,           \* normalizers: the argument
    cleaned,         \* normalizers: the returned text
    doc1,            \* identity matchers: first argument
    doc2,            \* identity matchers: second argument
    same,            \* identity matchers: the returned boolean
    files,           \* handlers / reducers: the batch, in upload order
    all_analyses,    \* analyze_files: the per-page analyses collected so far
    combined,        \* the merge accumulator
    license_plates,  \* analyze_license: set of plates seen
    fin_numbers,     \* analyze_license: set of FINs seen
    comparisons,     \* identifier values tested against another page's value
    merges,          \* records folded into the accumulator so far
    response         \* what the run returns or raises

vars == <<op, pc, value, cleaned, doc1, doc2, same, files, all_analyses,
          combined, license_plates, fin_numbers, comparisons, merges, response>>

(***************************************************************************)
(* Bounds of the model.                                                    *)
(***************************************************************************)
MaxPages == 3
MaxLines == 3

(***************************************************************************)
(* Text.                                                                   *)
(***************************************************************************)
NL == "\n"
Empty == << >>
Digits == {"1", "5"}
Whitespace == {" ", NL}

\* Python truthiness of a string: "if value".
Truthy(s) == s # Empty

RECURSIVE LStrip(_)
LStrip(s) ==
    IF s # Empty /\ Head(s) \in Whitespace THEN LStrip(Tail(s)) ELSE s

RECURSIVE RStrip(_)
RStrip(s) ==
    IF s # Empty /\ s[Len(s)] \in Whitespace
    THEN RStrip(SubSeq(s, 1, Len(s) - 1))
    ELSE s

\* str.strip()
Strip(s) == RStrip(LStrip(s))

\* Number of consecutive digits of s starting at position i: what \d+ takes.
RECURSIVE DigitRun(_, _)
DigitRun(s, i) ==
    IF i <= Len(s) /\ s[i] \in Digits THEN 1 + DigitRun(s, i + 1) ELSE 0

\* Length of group 1 when (\d+,\d+)\n\1 matches at position i, else 0.  Both
\* \d+ are followed by a non-digit (',' and '\n'), so only the whole digit
\* run can match and backtracking finds no second candidate.
GroupLen(s, i) ==
    LET d1 == DigitRun(s, i)
        c  == i + d1
        d2 == DigitRun(s, c + 1)
        g  == d1 + 1 + d2
    IN  IF /\ d1 > 0
           /\ c <= Len(s) /\ s[c] = ","
           /\ d2 > 0
           /\ i + g <= Len(s) /\ s[i + g] = NL
           /\ i + 2 * g <= Len(s)
           /\ SubSeq(s, i + g + 1, i + 2 * g) = SubSeq(s, i, i + g - 1)
        THEN g
        ELSE 0

\* re.sub(r'(\d+,\d+)\n\1', r'\1', s): leftmost non-overlapping matches, the
\* scan resuming after the end of each match.
RECURSIVE ReSubFrom(_, _)
ReSubFrom(s, i) ==
    IF i > Len(s) THEN Empty
    ELSE LET g == GroupLen(s, i)
         IN  IF g > 0
             THEN SubSeq(s, i, i + g - 1) \o ReSubFrom(s, i + 2 * g + 1)
             ELSE <<s[i]>> \o ReSubFrom(s, i + 1)

ReSub(s) == ReSubFrom(s, 1)

\* DocumentProcessor.clean_value (the field name is not read).
clean_value(v) ==
    IF ~Truthy(v) THEN Empty ELSE Strip(ReSub(v))

\* Position of the first line break of s, 0 when there is none.
RECURSIVE FirstNL(_, _)
FirstNL(s, i) ==
    IF i > Len(s) THEN 0 ELSE IF s[i] = NL THEN i ELSE FirstNL(s, i + 1)

\* clean_financial_value, the helper inside process_single_file.
clean_financial_value(v) ==
    IF ~Truthy(v) THEN v
    ELSE LET value_str == Strip(v)
             n == FirstNL(value_str, 1)
         IN  IF n > 0 THEN Strip(SubSeq(value_str, 1, n - 1)) ELSE value_str

(***************************************************************************)
(* The general-document schema of combine_results and the license schema   *)
(* of combine_license_results.                                             *)
(***************************************************************************)
Sections == {"invoice_information", "vehicle_information", "financial_information"}

\* An organized record: the three sections with their fixed keys.
OrganizedRecord(inv_no, cust, ord, deliv, oper, reg, cons, km, fin) ==
    [invoice_information |->
        [invoice_number |-> inv_no,
         costumer_number |-> cust,
         order_number |-> ord,
         date_of_delivery |-> deliv],
     vehicle_information |->
        [operating_number |-> oper,
         first_registration |-> reg,
         service_consultant |-> cons,
         km_status |-> km],
     financial_information |->
        [work_price |-> fin,
         material_price |-> fin,
         tax_basis |-> fin,
         vat_percentage |-> fin,
         vat_total |-> fin,
         total_amount |-> fin]]

\* A license record: the one section of organize_license_data.
LicenseRecord(model, marke, fin, other) ==
    [vehicle_information |->
        [model |-> model,
         marke |-> marke,
         fin |-> fin,
         erstzulassung |-> other,
         letze_wartung |-> other,
         type_variant_version |-> other]]

(***************************************************************************)
(* Identity matchers.                                                      *)
(***************************************************************************)
\* sum(1 for id1, id2 in identifiers if id1 and id2 and id1 == id2)
RECURSIVE CountMatches(_)
CountMatches(identifiers) ==
    IF identifiers = << >> THEN 0
    ELSE LET id1 == Head(identifiers)[1]
             id2 == Head(identifiers)[2]
         IN  (IF Truthy(id1) /\ Truthy(id2) /\ id1 = id2 THEN 1 ELSE 0)
             + CountMatches(Tail(identifiers))

\* The list of identifier pairs built by are_same_document.
DocumentIdentifiers(d1, d2) ==
    << <<d1.analysis.invoice_information.costumer_number,
         d2.analysis.invoice_information.costumer_number>>,
       <<d1.analysis.invoice_information.order_number,
         d2.analysis.invoice_information.order_number>>,
       <<d1.analysis.invoice_information.date_of_delivery,
         d2.analysis.invoice_information.date_of_delivery>>,
       <<d1.analysis.vehicle_information.operating_number,
         d2.analysis.vehicle_information.operating_number>>,
       <<d1.analysis.vehicle_information.first_registration,
         d2.analysis.vehicle_information.first_registration>>,
       <<d1.analysis.vehicle_information.service_consultant,
         d2.analysis.vehicle_information.service_consultant>>,
       <<d1.analysis.vehicle_information.km_status,
         d2.analysis.vehicle_information.km_status>> >>

\* are_same_document with the threshold of a strict majority of the seven.
are_same_document_majority(d1, d2) ==
    CountMatches(DocumentIdentifiers(d1, d2)) >= 4

\* DocumentProcessor.are_same_document
are_same_document(d1, d2) ==
    CountMatches(DocumentIdentifiers(d1, d2)) >= 3

\* DocumentProcessor.are_same_vehicle
are_same_vehicle(d1, d2) ==
    LET v1 == d1.analysis.vehicle_information
        v2 == d2.analysis.vehicle_information
        m1 == IF Truthy(v1.fin) /\ Truthy(v2.fin) /\ v1.fin = v2.fin THEN 1 ELSE 0
        m2 == IF Truthy(v1.model) /\ Truthy(v2.model) /\ v1.model = v2.model
              THEN 1 ELSE 0
        m3 == IF Truthy(v1.marke) /\ Truthy(v2.marke) /\ v1.marke = v2.marke
              THEN 1 ELSE 0
    IN  m1 + m2 + m3 >= 2

(***************************************************************************)
(* Values the provider returns for a field, and the idle values of the     *)
(* variables a specification does not use.                                 *)
(***************************************************************************)
ValX == <<"a">>
ValY == <<"b", "b">>
Values == {Empty, ValX, ValY}

NoData == << >>
NoResponse ==
    [status |-> 0, kind |-> "none", detail |-> << >>, analysis |-> NoData,
     values |-> NoData, files |-> << >>]

IdleNormalizer == value = Empty /\ cleaned = Empty
IdleMatcher == doc1 = NoData /\ doc2 = NoData /\ same = FALSE
IdleRequest ==
    /\ files = << >>
    /\ all_analyses = << >>
    /\ combined = NoData
    /\ license_plates = {}
    /\ fin_numbers = {}
    /\ comparisons = 0
    /\ merges = 0
    /\ response = NoResponse

(***************************************************************************)
(* SpecNorm: the normalizers applied to bounded inputs.                    *)
(***************************************************************************)
LinePool ==
    { Empty, <<"1", ",", "5">>, <<"1", "1", ",", "5">>, <<"5">>, <<" ", "x">> }

RECURSIVE JoinLines(_)
JoinLines(lines) ==
    IF Len(lines) = 1 THEN lines[1]
    ELSE lines[1] \o <<NL>> \o JoinLines(Tail(lines))

RawTexts ==
    UNION { { JoinLines(l) : l \in [1..n -> LinePool] } : n \in 1..MaxLines }

InitNorm ==
    /\ op \in {"clean_value", "clean_financial_value"}
    /\ pc = "start"
    /\ value \in RawTexts
    /\ cleaned = Empty
    /\ IdleMatcher
    /\ IdleRequest

CleanValue ==
    /\ op = "clean_value" /\ pc = "start"
    /\ cleaned' = clean_value(value)
    /\ pc' = "done"
    /\ UNCHANGED <<op, value, doc1, doc2, same, files, all_analyses, combined,
                   license_plates, fin_numbers, comparisons, merges, response>>

CleanFinancialValue ==
    /\ op = "clean_financial_value" /\ pc = "start"
    /\ cleaned' = clean_financial_value(value)
    /\ pc' = "done"
    /\ UNCHANGED <<op, value, doc1, doc2, same, files, all_analyses, combined,
                   license_plates, fin_numbers, comparisons, merges, response>>

NextNorm == CleanValue \/ CleanFinancialValue

SpecNorm == InitNorm /\ [][NextNorm]_vars

(***************************************************************************)
(* SpecMatch: the identity matchers applied to bounded pairs of records.   *)
(* Per identifier field the pair is one of: both empty, one side empty,    *)
(* equal, different; doc1 over {"", X} and doc2 over {"", X, Y} give all.  *)
(***************************************************************************)
DocumentsOver(V) ==
    { [analysis |-> OrganizedRecord(Empty, c, o, d, n, r, s, k, Empty)] :
        c \in V, o \in V, d \in V, n \in V, r \in V, s \in V, k \in V }

VehiclesOver(V) ==
    { [analysis |-> LicenseRecord(m, k, f, Empty)] : m \in V, k \in V, f \in V }

InitMatch ==
    /\ pc = "start"
    /\ \/ /\ op = "are_same_document"
          /\ doc1 \in DocumentsOver({Empty, ValX})
          /\ doc2 \in DocumentsOver(Values)
       \/ /\ op = "are_same_vehicle"
          /\ doc1 \in VehiclesOver({Empty, ValX})
          /\ doc2 \in VehiclesOver(Values)
    /\ same = FALSE
    /\ IdleNormalizer
    /\ IdleRequest

SameDocument ==
    /\ op = "are_same_document" /\ pc = "start"
    /\ same' = are_same_document(doc1, doc2)
    /\ pc' = "done"
    /\ UNCHANGED <<op, value, cleaned, doc1, doc2, files, all_analyses, combined,
                   license_plates, fin_numbers, comparisons, merges, response>>

SameVehicle ==
    /\ op = "are_same_vehicle" /\ pc = "start"
    /\ same' = are_same_vehicle(doc1, doc2)
    /\ pc' = "done"
    /\ UNCHANGED <<op, value, cleaned, doc1, doc2, files, all_analyses, combined,
                   license_plates, fin_numbers, comparisons, merges, response>>

NextMatch == SameDocument \/ SameVehicle

SpecMatch == InitMatch /\ [][NextMatch]_vars

(***************************************************************************)
(* Exceptions and responses.  A detail is a sequence of message parts.     *)
(***************************************************************************)
HTTPException(status_code, detail) ==
    [status |-> status_code, kind |-> "exception", detail |-> detail,
     analysis |-> NoData, values |-> NoData, files |-> << >>]

\* What the provider client raises when it cannot process a page.
ProviderError == HTTPException(0, <<"provider error">>)

\* The "except Exception as e" clause that closes both handlers: whatever was
\* raised inside the try block, an HTTPException raised there included, leaves
\* as status 500.
ExceptHandler(e) ==
    HTTPException(500, <<"Error processing document: ">> \o e.detail)

Filenames(batch) == [k \in 1..Len(batch) |-> batch[k].filename]

(***************************************************************************)
(* Reducers of the DocumentProcessor class.                                *)
(***************************************************************************)
\* FillOnce with the emptiness test of the accumulator dropped: a later
\* non-empty value overwrites an earlier one.
FillAlways(acc, result) ==
    [s \in DOMAIN acc |->
        [f \in DOMAIN acc[s] |->
            IF Truthy(result.analysis[s][f])
            THEN result.analysis[s][f]
            ELSE acc[s][f]]]

\* One pass of the inner loops of combine_results / combine_license_results:
\* a key is filled only while it is still empty.
FillOnce(acc, result) ==
    [s \in DOMAIN acc |->
        [f \in DOMAIN acc[s] |->
            IF ~Truthy(acc[s][f]) /\ Truthy(result.analysis[s][f])
            THEN result.analysis[s][f]
            ELSE acc[s][f]]]

RECURSIVE FoldFillOnce(_, _, _)
FoldFillOnce(acc, results, k) ==
    IF k > Len(results) THEN acc
    ELSE FoldFillOnce(FillOnce(acc, results[k]), results, k + 1)

\* The validation loop of combine_results: the index of the first adjacent
\* pair are_same_document rejects, 0 when the loop runs to its end.
RECURSIVE ValidateFrom(_, _)
ValidateFrom(results, i) ==
    IF i > Len(results) - 1 THEN 0
    ELSE IF ~are_same_document(results[i], results[i + 1]) THEN i
    ELSE ValidateFrom(results, i + 1)

\* The validation loop with range(len(results) - 2): the last pair is skipped.
RECURSIVE ValidateButLast(_, _)
ValidateButLast(results, i) ==
    IF i > Len(results) - 2 THEN 0
    ELSE IF ~are_same_document(results[i], results[i + 1]) THEN i
    ELSE ValidateButLast(results, i + 1)

FirstRejectedPairButLast(results) == ValidateButLast(results, 1)

\* A validation loop that compares every record, the first included, with
\* the first record.
RECURSIVE ValidateAnchor(_, _)
ValidateAnchor(results, i) ==
    IF i > Len(results) THEN 0
    ELSE IF ~are_same_document(results[1], results[i]) THEN i
    ELSE ValidateAnchor(results, i + 1)

FirstRejectedByAnchor(results) == ValidateAnchor(results, 1)

FirstRejectedPair(results) == ValidateFrom(results, 1)

EmptyOrganized ==
    OrganizedRecord(Empty, Empty, Empty, Empty, Empty, Empty, Empty, Empty, Empty)
EmptyLicense == LicenseRecord(Empty, Empty, Empty, Empty)

(***************************************************************************)
(* process_single_file, on the provider's field names.                     *)
(***************************************************************************)
InvoiceIdNames ==
    {"invoice number", "costumer number", "order number", "unit/chassis number"}
AnalyzeFieldNames == InvoiceIdNames \cup {"operating number", "total amount"}

\* The substring tests of process_single_file evaluated on AnalyzeFieldNames.
IsFinancialName(n) == n = "total amount"
Category(n) ==
    IF n \in InvoiceIdNames THEN "invoice_information"
    ELSE IF n = "operating number" THEN "vehicle_information"
    ELSE "financial_information"

\* ExtractedNames without the "if not field_value: continue" test.
ExtractedNamesKeepEmpty(file) ==
    IF file.outcome = "document" THEN DOMAIN file.fields ELSE {}

\* The fields that survive "if not field_value: continue".  A response with
\* no document has no fields.
ExtractedNames(file) ==
    IF file.outcome = "document"
    THEN { n \in DOMAIN file.fields : Truthy(file.fields[n]) }
    ELSE {}

CategoryDict(file, c) ==
    [n \in { m \in ExtractedNames(file) : Category(m) = c } |->
        IF IsFinancialName(n) THEN clean_financial_value(file.fields[n])
        ELSE file.fields[n]]

process_single_file(file) ==
    [status |-> "success",
     analysis |->
        [invoice_information |-> CategoryDict(file, "invoice_information"),
         vehicle_information |-> CategoryDict(file, "vehicle_information"),
         financial_information |-> CategoryDict(file, "financial_information")],
     filename |-> file.filename]

(***************************************************************************)
(* analyze_files: validation and merge of the collected analyses.          *)
(***************************************************************************)
validation_fields ==
    { <<"invoice_information", "invoice number">>,
      <<"invoice_information", "costumer number">>,
      <<"invoice_information", "order number">>,
      <<"vehicle_information", "operating number">>,
      <<"invoice_information", "unit/chassis number">> }

\* doc_id of one analysis: the validation fields present in it.
DocId(analysis) ==
    [key \in { vf \in validation_fields :
                 vf[2] \in DOMAIN analysis.analysis[vf[1]] } |->
        analysis.analysis[key[1]][key[2]]]

\* The values collected for one field key over the documents that have it.
IdentifierValues(analyses, key) ==
    { DocId(analyses[k])[key] :
        k \in { j \in 1..Len(analyses) : key \in DOMAIN DocId(analyses[j]) } }

mismatch_fields(analyses) ==
    { key \in UNION { DOMAIN DocId(analyses[k]) : k \in 1..Len(analyses) } :
        Cardinality(IdentifierValues(analyses, key)) > 1 }

\* LongestWins without the length test: a field is written only while it is
\* not in the accumulator.
LongestWinsIfAbsent(acc, page) ==
    [f \in DOMAIN acc \cup DOMAIN page |->
        IF f \in DOMAIN acc THEN acc[f] ELSE page[f]]

\* "if field not in combined or len(str(value)) > len(str(combined[field]))"
LongestWins(acc, page) ==
    [f \in DOMAIN acc \cup DOMAIN page |->
        IF f \notin DOMAIN page THEN acc[f]
        ELSE IF f \notin DOMAIN acc \/ Len(page[f]) > Len(acc[f]) THEN page[f]
        ELSE acc[f]]

RECURSIVE FoldAnalyses(_, _, _)
FoldAnalyses(acc, analyses, k) ==
    IF k > Len(analyses) THEN acc
    ELSE FoldAnalyses(
            [c \in Sections |-> LongestWins(acc[c], analyses[k].analysis[c])],
            analyses, k + 1)

(***************************************************************************)
(* analyze_license: the per-file loop.                                     *)
(***************************************************************************)
PlateName == "A: Licence plate"
FinName == "E: FIN"
\* "D.1: Marke" stands for every field that is not an identifier.
LicenseFieldNames == {PlateName, FinName, "D.1: Marke"}

\* Index of the first file whose outcome is one of the given ones, else 0.
RECURSIVE FirstWithOutcome(_, _, _)
FirstWithOutcome(batch, outcomes, k) ==
    IF k > Len(batch) THEN 0
    ELSE IF batch[k].outcome \in outcomes THEN k
    ELSE FirstWithOutcome(batch, outcomes, k + 1)

\* analyze_license stops at the first file for which the provider raises or
\* returns no document ("if not result.documents: raise").
FirstLicenseFailure(batch) == FirstWithOutcome(batch, {"raises", "no_document"}, 1)

\* process_single_file stops only when the provider raises: with no document
\* it goes on with fields = {}.
FirstAnalyzeFailure(batch) == FirstWithOutcome(batch, {"raises"}, 1)

\* The fields of one file whose content is non-empty.
ContentDict(file) ==
    [n \in { m \in DOMAIN file.fields : Truthy(file.fields[m]) } |-> file.fields[n]]

\* The identifier of one file added to its set: nothing when it has no content.
Collected(file, name) ==
    IF Truthy(file.fields[name]) THEN {file.fields[name]} ELSE {}

\* One iteration of the loop over files (document_identifiers is written and
\* never read, and is left out).
LicenseIteration(st, file) ==
    [license_plates |-> st.license_plates \cup Collected(file, PlateName),
     fin_numbers |-> st.fin_numbers \cup Collected(file, FinName),
     combined_license_data |-> LongestWins(st.combined_license_data, ContentDict(file))]

\* The loop's locals after its first n iterations.
RECURSIVE LicenseLoop(_, _)
LicenseLoop(batch, n) ==
    IF n = 0
    THEN [license_plates |-> {}, fin_numbers |-> {}, combined_license_data |-> NoData]
    ELSE LicenseIteration(LicenseLoop(batch, n - 1), batch[n])

(***************************************************************************)
(* Spec: runs of the reducers and of the two handlers on bounded batches.  *)
(* A pool page fills the fields of one block with one value: the           *)
(* identifiers of the invoice section, those of the vehicle section, and   *)
(* the fields that are no identifiers.                                     *)
(***************************************************************************)
OrganizedPool ==
    { [analysis |-> OrganizedRecord(o, i, i, i, v, v, v, v, o)] :
        i \in Values, v \in Values, o \in {Empty, ValX} }

LicensePool ==
    { [analysis |-> LicenseRecord(i, i, i, o)] : i \in Values, o \in Values }

AnalyzeUploads ==
    { [outcome |-> "document",
       fields |-> [n \in AnalyzeFieldNames |->
                      IF n \in InvoiceIdNames THEN i
                      ELSE IF n = "operating number" THEN v ELSE o]] :
        i \in Values, v \in Values, o \in {ValX, ValY} }
    \cup { [outcome |-> x, fields |-> [n \in AnalyzeFieldNames |-> Empty]] :
             x \in {"raises", "no_document"} }

LicenseUploads ==
    { [outcome |-> "document",
       fields |-> [n \in LicenseFieldNames |->
                      IF n = PlateName THEN p ELSE IF n = FinName THEN f ELSE o]] :
        p \in Values, f \in Values, o \in {ValX, ValY} }
    \cup { [outcome |-> x, fields |-> [n \in LicenseFieldNames |-> Empty]] :
             x \in {"raises", "no_document"} }

PoolOf(o) ==
    CASE o = "combine_results" -> OrganizedPool
      [] o = "combine_license_results" -> LicensePool
      [] o = "analyze_files" -> AnalyzeUploads
      [] o = "analyze_license" -> LicenseUploads

Ops == {"combine_results", "combine_license_results", "analyze_files", "analyze_license"}

\* The k-th upload is named k.
Named(b) == [k \in 1..Len(b) |-> [filename |-> k] @@ b[k]]

Init ==
    /\ op \in Ops
    /\ pc = "start"
    /\ \E n \in 0..MaxPages : \E b \in [1..n -> PoolOf(op)] : files = Named(b)
    /\ all_analyses = << >>
    /\ combined = NoData
    /\ license_plates = {}
    /\ fin_numbers = {}
    /\ comparisons = 0
    /\ merges = 0
    /\ response = NoResponse
    /\ IdleNormalizer
    /\ IdleMatcher

Success(analysis, filenames) ==
    [status |-> 200, kind |-> "success", detail |-> << >>, analysis |-> analysis,
     values |-> NoData, files |-> filenames]

\* combine_results with the fold moved in front of the validation loop.
CombineFoldThenValidate ==
    /\ op = "combine_results" /\ pc = "start"
    /\ combined' = FoldFillOnce(EmptyOrganized, files, 1)
    /\ merges' = Len(files)
    /\ LET i == FirstRejectedPair(files)
       IN  IF i > 0
           THEN /\ pc' = "rejected"
                /\ comparisons' = i
                /\ response' =
                      [HTTPException(400, <<"Different documents detected">>)
                          EXCEPT !.files = Filenames(files)]
           ELSE /\ pc' = "merge"
                /\ comparisons' = IF Len(files) = 0 THEN 0 ELSE Len(files) - 1
                /\ UNCHANGED response
    /\ UNCHANGED <<op, value, cleaned, doc1, doc2, same, files, all_analyses,
                   license_plates, fin_numbers>>

\* combine_results, lines 129-138: the validation loop.
CombineValidate ==
    /\ op = "combine_results" /\ pc = "start"
    /\ LET i == FirstRejectedPair(files)
       IN  IF i > 0
           THEN /\ pc' = "rejected"
                /\ comparisons' = i
                /\ response' =
                      [HTTPException(400, <<"Different documents detected">>)
                          EXCEPT !.files = Filenames(files)]
           ELSE /\ pc' = "merge"
                /\ comparisons' = IF Len(files) = 0 THEN 0 ELSE Len(files) - 1
                /\ UNCHANGED response
    /\ UNCHANGED <<op, value, cleaned, doc1, doc2, same, files, all_analyses,
                   combined, license_plates, fin_numbers, merges>>

\* combine_results, lines 141-171: the fold.
CombineMerge ==
    /\ op = "combine_results" /\ pc = "merge"
    /\ combined' = FoldFillOnce(EmptyOrganized, files, 1)
    /\ merges' = Len(files)
    /\ response' = Success(combined', << >>)
    /\ pc' = "done"
    /\ UNCHANGED <<op, value, cleaned, doc1, doc2, same, files, all_analyses,
                   license_plates, fin_numbers, comparisons>>

\* combine_license_results.
CombineLicense ==
    /\ op = "combine_license_results" /\ pc = "start"
    /\ combined' = FoldFillOnce(EmptyLicense, files, 1)
    /\ merges' = Len(files)
    /\ response' = Success(combined', << >>)
    /\ pc' = "done"
    /\ UNCHANGED <<op, value, cleaned, doc1, doc2, same, files, all_analyses,
                   license_plates, fin_numbers, comparisons>>

\* The exception a failing file raises inside the try block.
RaisedBy(file) ==
    IF file.outcome = "raises" THEN ProviderError
    ELSE HTTPException(400, <<"could not be analyzed as a license document">>)

\* analyze_files, lines 251-252, and the except clause.
AnalyzeFilesEmpty ==
    /\ op = "analyze_files" /\ pc = "start" /\ Len(files) = 0
    /\ response' = ExceptHandler(HTTPException(400, <<"No files provided">>))
    /\ pc' = "error"
    /\ UNCHANGED <<op, value, cleaned, doc1, doc2, same, files, all_analyses,
                   combined, license_plates, fin_numbers, comparisons, merges>>

\* analyze_files, lines 255-256: one file is returned as process_single_file
\* leaves it.
AnalyzeFilesSingle ==
    /\ op = "analyze_files" /\ pc = "start" /\ Len(files) = 1
    /\ IF FirstAnalyzeFailure(files) > 0
       THEN /\ response' = ExceptHandler(RaisedBy(files[1]))
            /\ pc' = "error"
       ELSE /\ response' = Success(process_single_file(files[1]).analysis,
                                   <<files[1].filename>>)
            /\ pc' = "done"
    /\ UNCHANGED <<op, value, cleaned, doc1, doc2, same, files, all_analyses,
                   combined, license_plates, fin_numbers, comparisons, merges>>

\* analyze_files, lines 260-267: every file is processed in upload order.
AnalyzeFilesCollect ==
    /\ op = "analyze_files" /\ pc = "start" /\ Len(files) > 1
    /\ LET k == FirstAnalyzeFailure(files)
       IN  IF k > 0
           THEN /\ all_analyses' =
                      [j \in 1..(k - 1) |-> process_single_file(files[j])]
                /\ response' = ExceptHandler(RaisedBy(files[k]))
                /\ pc' = "error"
           ELSE /\ all_analyses' =
                      [j \in 1..Len(files) |-> process_single_file(files[j])]
                /\ UNCHANGED response
                /\ pc' = "validate"
    /\ UNCHANGED <<op, value, cleaned, doc1, doc2, same, files, combined,
                   license_plates, fin_numbers, comparisons, merges>>

\* Values tested against a value collected from an earlier document.
AnalyzeComparisons(analyses) ==
    Cardinality(
        { <<key, k>> \in validation_fields \X (1..Len(analyses)) :
            /\ key \in DOMAIN DocId(analyses[k])
            /\ \E j \in 1..(k - 1) : key \in DOMAIN DocId(analyses[j]) })

\* analyze_files, lines 269-314: the identifiers are compared.
AnalyzeFilesValidate ==
    /\ op = "analyze_files" /\ pc = "validate"
    /\ comparisons' = AnalyzeComparisons(all_analyses)
    /\ LET m == mismatch_fields(all_analyses)
       IN  IF m # {}
           THEN /\ response' =
                      [status |-> 200, kind |-> "mismatch",
                       detail |-> <<"The uploaded files appear to be from different invoices">>,
                       analysis |-> NoData,
                       values |-> [key \in m |-> IdentifierValues(all_analyses, key)],
                       files |-> Filenames(files)]
                /\ pc' = "rejected"
           ELSE /\ UNCHANGED response
                /\ pc' = "merge"
    /\ UNCHANGED <<op, value, cleaned, doc1, doc2, same, files, all_analyses,
                   combined, license_plates, fin_numbers, merges>>

\* analyze_files, lines 316-336: the analyses are folded.
AnalyzeFilesMerge ==
    /\ op = "analyze_files" /\ pc = "merge"
    /\ combined' = FoldAnalyses([c \in Sections |-> NoData], all_analyses, 1)
    /\ merges' = Len(all_analyses)
    /\ response' = Success(combined', Filenames(files))
    /\ pc' = "done"
    /\ UNCHANGED <<op, value, cleaned, doc1, doc2, same, files, all_analyses,
                   license_plates, fin_numbers, comparisons>>

\* analyze_license, lines 434-435, and the except clause.
AnalyzeLicenseEmpty ==
    /\ op = "analyze_license" /\ pc = "start" /\ Len(files) = 0
    /\ response' = ExceptHandler(HTTPException(400, <<"No files provided">>))
    /\ pc' = "error"
    /\ UNCHANGED <<op, value, cleaned, doc1, doc2, same, files, all_analyses,
                   combined, license_plates, fin_numbers, comparisons, merges>>

\* Identifiers added to a set that already holds one of an earlier file.
LicenseComparisons(batch, n) ==
    Cardinality(
        { <<name, k>> \in {PlateName, FinName} \X (1..n) :
            /\ Truthy(batch[k].fields[name])
            /\ \E j \in 1..(k - 1) : Truthy(batch[j].fields[name]) })

\* analyze_license, lines 443-505: the loop over the files, which collects
\* the identifiers and merges the fields of each file as it goes.
AnalyzeLicenseCollect ==
    /\ op = "analyze_license" /\ pc = "start" /\ Len(files) > 0
    /\ LET k == FirstLicenseFailure(files)
           n == IF k > 0 THEN k - 1 ELSE Len(files)
           st == LicenseLoop(files, n)
       IN  /\ license_plates' = st.license_plates
           /\ fin_numbers' = st.fin_numbers
           /\ combined' = st.combined_license_data
           /\ merges' = n
           /\ comparisons' = LicenseComparisons(files, n)
           /\ IF k > 0
              THEN /\ response' = ExceptHandler(RaisedBy(files[k]))
                   /\ pc' = "error"
              ELSE /\ UNCHANGED response
                   /\ pc' = "validate"
    /\ UNCHANGED <<op, value, cleaned, doc1, doc2, same, files, all_analyses>>

\* analyze_license, lines 507-516.
AnalyzeLicenseValidate ==
    /\ op = "analyze_license" /\ pc = "validate"
    /\ IF Cardinality(license_plates) > 1 \/ Cardinality(fin_numbers) > 1
       THEN /\ response' =
                  [status |-> 200, kind |-> "mismatch",
                   detail |-> <<"The uploaded files appear to be from different vehicles.">>,
                   analysis |-> NoData,
                   values |-> [license_plates |-> license_plates,
                               fin_numbers |-> fin_numbers],
                   files |-> << >>]
            /\ pc' = "rejected"
       ELSE /\ response' = Success(combined, << >>)
            /\ pc' = "done"
    /\ UNCHANGED <<op, value, cleaned, doc1, doc2, same, files, all_analyses,
                   combined, license_plates, fin_numbers, comparisons, merges>>

Next ==
    \/ CombineValidate
    \/ CombineMerge
    \/ CombineLicense
    \/ AnalyzeFilesEmpty
    \/ AnalyzeFilesSingle
    \/ AnalyzeFilesCollect
    \/ AnalyzeFilesValidate
    \/ AnalyzeFilesMerge
    \/ AnalyzeLicenseEmpty
    \/ AnalyzeLicenseCollect
    \/ AnalyzeLicenseValidate

Spec == Init /\ [][Next]_vars

(***************************************************************************)
(* Properties.                                                             *)
(***************************************************************************)
\* The values the pages of the batch have for one section/key, in upload order.
Column(s, f) == [k \in 1..Len(files) |-> files[k].analysis[s][f]]

\* The first non-empty entry of a column, the empty string when there is none.
FirstNonEmpty(col) ==
    IF \A k \in DOMAIN col : col[k] = Empty THEN Empty
    ELSE col[CHOOSE k \in DOMAIN col :
                 col[k] # Empty /\ \A j \in 1..(k - 1) : col[j] = Empty]

Schema(o) == IF o = "combine_results" THEN EmptyOrganized ELSE EmptyLicense

\* C1: whenever combine_results or combine_license_results has merged a batch,
\* the merged record has exactly the keys of the fixed schema and every key
\* holds the first non-empty value of the batch in upload order, or the empty
\* string when every record leaves the key empty.
FillOnceMerge ==
    (op \in {"combine_results", "combine_license_results"} /\ pc = "done") =>
        /\ response.kind = "success"
        /\ DOMAIN response.analysis = DOMAIN Schema(op)
        /\ \A s \in DOMAIN Schema(op) :
              /\ DOMAIN response.analysis[s] = DOMAIN Schema(op)[s]
              /\ \A f \in DOMAIN Schema(op)[s] :
                    response.analysis[s][f] = FirstNonEmpty(Column(s, f))

\* A merged batch of three whose values for one key are "", X, Y: X is kept.
FillOnceWitness ==
    /\ op = "combine_results" /\ pc = "done" /\ Len(files) = 3
    /\ \E s \in DOMAIN EmptyOrganized : \E f \in DOMAIN EmptyOrganized[s] :
          /\ Column(s, f) = <<Empty, ValX, ValY>>
          /\ response.analysis[s][f] = ValX

\* The identifier fields of the two matchers, as section/key pairs.
DocumentIdFields ==
    { <<"invoice_information", "costumer_number">>,
      <<"invoice_information", "order_number">>,
      <<"invoice_information", "date_of_delivery">>,
      <<"vehicle_information", "operating_number">>,
      <<"vehicle_information", "first_registration">>,
      <<"vehicle_information", "service_consultant">>,
      <<"vehicle_information", "km_status">> }

VehicleIdFields ==
    { <<"vehicle_information", "fin">>,
      <<"vehicle_information", "model">>,
      <<"vehicle_information", "marke">> }

IdFieldsOf(o) ==
    IF o \in {"are_same_document", "combine_results"} THEN DocumentIdFields
    ELSE VehicleIdFields

\* The identifier fields that are non-empty on both records and equal.
Agreeing(d1, d2, F) ==
    { sf \in F :
        /\ d1.analysis[sf[1]][sf[2]] # Empty
        /\ d2.analysis[sf[1]][sf[2]] # Empty
        /\ d1.analysis[sf[1]][sf[2]] = d2.analysis[sf[1]][sf[2]] }

\* The least count that is more than half of k.
StrictMajority(k) == (k \div 2) + 1

\* C2 as stated: a matcher answers "same" exactly when the agreeing identifier
\* fields are at least a strict majority of the profile's k identifier fields.
MajorityThreshold ==
    pc = "done" =>
        (same <=> Cardinality(Agreeing(doc1, doc2, IdFieldsOf(op)))
                    >= StrictMajority(Cardinality(IdFieldsOf(op))))

\* C2 as the code has it: are_same_document answers "same" exactly when at
\* least 3 of its 7 identifier fields agree, are_same_vehicle exactly when at
\* least 2 of its 3 do.
MatchThreshold ==
    pc = "done" =>
        /\ op = "are_same_document" =>
              (same <=> Cardinality(Agreeing(doc1, doc2, DocumentIdFields)) >= 3)
        /\ op = "are_same_vehicle" =>
              (same <=> Cardinality(Agreeing(doc1, doc2, VehicleIdFields)) >= 2)

\* Two documents agreeing on exactly 3 of the 7 identifier fields, differing
\* on a fourth, judged the same.
MatchThresholdWitness ==
    /\ op = "are_same_document" /\ pc = "done" /\ same
    /\ Cardinality(Agreeing(doc1, doc2, DocumentIdFields)) = 3
    /\ \E sf \in DocumentIdFields :
          /\ doc1.analysis[sf[1]][sf[2]] # Empty
          /\ doc2.analysis[sf[1]][sf[2]] # Empty
          /\ doc1.analysis[sf[1]][sf[2]] # doc2.analysis[sf[1]][sf[2]]

\* The identifier fields a handler validates, by provider field name.
IdNamesOf(o) ==
    IF o = "analyze_files" THEN { vf[2] : vf \in validation_fields }
    ELSE {PlateName, FinName}

\* No page of the batch has any identifier field populated.
NoIdentifierPopulated ==
    IF op = "combine_results"
    THEN \A k \in 1..Len(files) : \A sf \in DocumentIdFields :
            files[k].analysis[sf[1]][sf[2]] = Empty
    ELSE \A k \in 1..Len(files) :
            /\ files[k].outcome = "document"
            /\ \A n \in IdNamesOf(op) : files[k].fields[n] = Empty

\* C3: a batch of two or more pages none of which has an identifier field
\* populated is never accepted for merging, on any of the three paths.
FailClosed ==
    ( /\ op \in {"combine_results", "analyze_files", "analyze_license"}
      /\ Len(files) >= 2
      /\ NoIdentifierPopulated ) =>
        pc \notin {"merge", "done"}

\* Some identifier field has two different non-empty values on two pages.
Conflict ==
    \E n \in IdNamesOf(op) : \E j \in 1..Len(files) : \E k \in 1..Len(files) :
        /\ files[j].outcome = "document" /\ files[k].outcome = "document"
        /\ files[j].fields[n] # Empty
        /\ files[k].fields[n] # Empty
        /\ files[j].fields[n] # files[k].fields[n]

\* C4: in analyze_files and analyze_license a multi-page batch whose pages
\* were all extracted is rejected exactly when some identifier field has two
\* different non-empty values on two pages: an empty or absent value never
\* causes a rejection.
EmptyNeverConflicts ==
    (op \in {"analyze_files", "analyze_license"} /\ Len(files) >= 2) =>
        /\ pc = "rejected" => Conflict
        /\ pc \in {"merge", "done"} => ~Conflict

\* A merged batch in which one page has an identifier another page lacks.
EmptyNeverConflictsWitness ==
    /\ op = "analyze_files" /\ pc = "done" /\ Len(files) >= 2
    /\ \E n \in IdNamesOf(op) : \E j \in 1..Len(files) : \E k \in 1..Len(files) :
          /\ files[j].outcome = "document" /\ files[k].outcome = "document"
          /\ files[j].fields[n] = Empty
          /\ files[k].fields[n] # Empty

\* C5 as stated: after the validation loop of combine_results has passed,
\* every two records of the batch are the same document.
PairwiseCompatible ==
    (op = "combine_results" /\ pc \in {"merge", "done"}) =>
        \A j \in 1..Len(files) : \A k \in 1..Len(files) :
            j # k => are_same_document(files[j], files[k])

\* C5 as the code has it: after the validation loop of combine_results has
\* passed, every two records adjacent in upload order are the same document.
AdjacentCompatible ==
    (op = "combine_results" /\ pc \in {"merge", "done"}) =>
        \A k \in 1..(Len(files) - 1) : are_same_document(files[k], files[k + 1])

\* A merged batch of three whose first and last records are not the same
\* document.
AdjacentCompatibleWitness ==
    /\ op = "combine_results" /\ pc = "done" /\ Len(files) = 3
    /\ ~are_same_document(files[1], files[3])

\* The record of one uploaded page: its non-empty fields, each under its
\* category (analyze_files) or in one flat mapping (analyze_license), the
\* financial ones cleaned.
IsPageRecord(rec, file) ==
    IF op = "analyze_files"
    THEN \A c \in Sections :
            /\ DOMAIN rec[c] =
                  { n \in AnalyzeFieldNames :
                      /\ file.outcome = "document"
                      /\ file.fields[n] # Empty
                      /\ Category(n) = c }
            /\ \A n \in DOMAIN rec[c] :
                  rec[c][n] = IF IsFinancialName(n)
                              THEN clean_financial_value(file.fields[n])
                              ELSE file.fields[n]
    ELSE /\ DOMAIN rec = { n \in LicenseFieldNames : file.fields[n] # Empty }
         /\ \A n \in DOMAIN rec : rec[n] = file.fields[n]

\* C6: a batch of exactly one page is never rejected and no identifier value
\* of it is compared with anything, whatever its field values are; when the
\* run is done it has returned that page's record, and analyze_files gets
\* there without entering validation or merge.
SinglePageBypass ==
    ( /\ op \in {"combine_results", "analyze_files", "analyze_license"}
      /\ Len(files) = 1 ) =>
        /\ comparisons = 0
        /\ pc # "rejected"
        /\ op = "analyze_files" => pc \in {"start", "done", "error"}
        /\ pc = "done" =>
              /\ response.kind = "success"
              /\ IF op = "combine_results"
                 THEN response.analysis = files[1].analysis
                 ELSE IsPageRecord(response.analysis, files[1])

\* A single record that is not even the same document as itself (fewer than
\* three identifiers populated) has been returned by combine_results.
SinglePageBypassWitness ==
    /\ op = "combine_results" /\ Len(files) = 1 /\ pc = "done"
    /\ ~are_same_document(files[1], files[1])
    /\ response.analysis = files[1].analysis

\* C7: a multi-page request to analyze_files or analyze_license in which the
\* provider cannot process some page (it raises, or returns no document)
\* never ends in a success response.
FailFast ==
    ( /\ op \in {"analyze_files", "analyze_license"}
      /\ Len(files) >= 2
      /\ \E k \in 1..Len(files) : files[k].outcome # "document" ) =>
        /\ pc # "done"
        /\ response.kind # "success"

\* C8: a request to analyze_files or analyze_license with no files ends with
\* status 400 and the detail "No files provided".
EmptyBatchClientFault ==
    ( /\ op \in {"analyze_files", "analyze_license"}
      /\ Len(files) = 0
      /\ pc # "start" ) =>
        /\ response.status = 400
        /\ response.detail = <<"No files provided">>

\* The identifier fields with two different populated values on two pages of
\* the batch, named as the pages name them.
DifferingFields ==
    IF op = "combine_results"
    THEN { sf[2] : sf \in
             { x \in DocumentIdFields :
                 \E j \in 1..Len(files) : \E k \in 1..Len(files) :
                    /\ files[j].analysis[x[1]][x[2]] # Empty
                    /\ files[k].analysis[x[1]][x[2]] # Empty
                    /\ files[j].analysis[x[1]][x[2]] # files[k].analysis[x[1]][x[2]] } }
    ELSE { n \in IdNamesOf(op) :
             \E j \in 1..Len(files) : \E k \in 1..Len(files) :
                /\ files[j].fields[n] # Empty
                /\ files[k].fields[n] # Empty
                /\ files[j].fields[n] # files[k].fields[n] }

\* The identifier fields a rejection names.
ReportedFields ==
    CASE op = "analyze_files" -> { key[2] : key \in DOMAIN response.values }
      [] op = "analyze_license" ->
            (IF "license_plates" \in DOMAIN response.values THEN {PlateName} ELSE {})
            \cup (IF "fin_numbers" \in DOMAIN response.values THEN {FinName} ELSE {})
      [] OTHER -> {}

\* C9: every rejection of a batch for identity mismatch names every
\* identifier field whose populated values differed across the pages, and
\* carries the filenames of the batch.
MismatchReport ==
    pc = "rejected" =>
        /\ DifferingFields \subseteq ReportedFields
        /\ response.files = Filenames(files)

\* C10: applying clean_value, or clean_financial_value, to its own result
\* returns that result unchanged.
NormalizationIdempotent ==
    pc = "done" =>
        /\ op = "clean_value" => clean_value(cleaned) = cleaned
        /\ op = "clean_financial_value" => clean_financial_value(cleaned) = cleaned

\* The values the uploads of a handler have for one provider field, in upload
\* order, as process_single_file / analyze_license read them; the empty string
\* where the page has no such field.
HandlerColumn(n) ==
    [k \in 1..Len(files) |->
        IF files[k].outcome # "document" THEN Empty
        ELSE IF op = "analyze_files" /\ IsFinancialName(n)
             THEN clean_financial_value(files[k].fields[n])
             ELSE files[k].fields[n]]

\* The value a handler's success response has for one provider field, the
\* empty string when the response does not have the field.
HandlerMerged(n) ==
    LET d == IF op = "analyze_files" THEN response.analysis[Category(n)]
             ELSE response.analysis
    IN  IF n \in DOMAIN d THEN d[n] ELSE Empty

HandlerFieldNames == IF op = "analyze_files" THEN AnalyzeFieldNames ELSE LicenseFieldNames

\* v is a longest value of the column (the empty string when all are empty).
IsLongestOf(v, col) ==
    IF \A k \in DOMAIN col : col[k] = Empty THEN v = Empty
    ELSE /\ \E k \in DOMAIN col : col[k] = v
         /\ \A j \in DOMAIN col : Len(col[j]) <= Len(v)

\* The earliest of the longest values of a column.
FirstLongest(col) ==
    IF \A k \in DOMAIN col : col[k] = Empty THEN Empty
    ELSE col[CHOOSE k \in DOMAIN col :
                 /\ \A j \in DOMAIN col : Len(col[j]) <= Len(col[k])
                 /\ \A j \in 1..(k - 1) : Len(col[j]) < Len(col[k])]

MergeAfterValidation ==
    ( /\ op \in {"combine_results", "analyze_files", "analyze_license"}
      /\ Len(files) >= 2 ) =>
        (pc \in {"start", "validate", "rejected"} => merges = 0)

\* C12 as the code has it: in a multi-page run combine_results and
\* analyze_files merge nothing before validation has passed, so their rejected
\* runs have merged nothing; analyze_license merges every page inside its
\* collecting loop, before it validates, so its validating and rejected runs
\* have merged the whole batch; on all three paths a rejected run returns no
\* merged record.
MergeOrderPerPath ==
    ( /\ op \in {"combine_results", "analyze_files", "analyze_license"}
      /\ Len(files) >= 2 ) =>
        /\ op \in {"combine_results", "analyze_files"} =>
              (pc # "done" => merges = 0)
        /\ op = "analyze_license" =>
              (pc \in {"validate", "rejected"} => merges = Len(files))
        /\ pc = "rejected" =>
              /\ response.kind # "success"
              /\ response.analysis = NoData

\* analyze_license has rejected a batch all of whose pages it had merged.
MergeOrderWitness ==
    /\ op = "analyze_license" /\ pc = "rejected" /\ Len(files) >= 2
    /\ merges = Len(files)
    /\ combined # NoData
    /\ response.kind = "mismatch"

=============================================================================
